---- MODULE Spec2Model ----
(***************************************************************************)
(* Plugin-metadata loading and injection pipeline of rhdh-e2e-test-utils   *)
(* (utils/plugin-metadata): gating policy, canonical identifier            *)
(* extraction, descriptor parsing, directory scan, metadata injection,     *)
(* full generation and the top-level loadAndInjectPluginMetadata; the      *)
(* command runner of utils/bash (runQuietUnlessFailure); and the catalog   *)
(* import page object (CatalogImportPage.registerExistingComponent).       *)
(*                                                                         *)
(* Strings that the code inspects character by character (package          *)
(* references, environment values) are sequences of one-character strings. *)
(***************************************************************************)
EXTENDS Integers, Sequences, FiniteSets, TLC

VARIABLES
    env,      \* process.env: RHDH_SKIP_PLUGIN_METADATA_INJECTION and JOB_NAME
    dirKind,  \* what the resolved metadata path is on disk: missing, file, dir
    files,    \* the *.yaml descriptor files of the directory, in glob order
    pc,       \* "idle" (nothing invoked), "call" (invoked, not run), "done"
    op,       \* the exported function that was invoked
    arg,      \* its argument(s)
    ret,      \* its outcome: a returned value or a thrown error
    fsLog,    \* the file-system accesses the invocation made, in order
    console,  \* the lines written with console.error, in order
    page,     \* the catalog import page: what it shows and what was done to it
    heap      \* the configuration objects in memory, by reference

vars == <<env, dirKind, files, pc, op, arg, ret, fsLog, console, page, heap>>

\* The parts of the state an operation of another component leaves alone.
NoConsole == <<>>
NoPage == [shown |-> "none"]
NoHeap == <<>>

(***************************************************************************)
(* Bounds of the model.                                                    *)
(***************************************************************************)
MaxLen == 5       \* longest enumerated package reference
MaxPlugins == 2   \* longest enumerated plugins list
MaxFiles == 2     \* most descriptor files in the metadata directory
MaxExit == 2      \* largest enumerated exit code of a command
MaxObjects == 6   \* most configuration objects in memory

(***************************************************************************)
(* Outcomes of a call.                                                     *)
(***************************************************************************)
NoRet == [kind |-> "none"]
Return(v) == [kind |-> "value", val |-> v]
Throw(e, m) == [kind |-> "throw", error |-> e, message |-> m]

\* The JavaScript value undefined, where a document is expected.
Undefined == [js |-> "undefined"]

(***************************************************************************)
(* String helpers (String.prototype.includes / split).                     *)
(***************************************************************************)
\* s.includes(pat)
StrIncludes(s, pat) ==
    \E i \in 0..(Len(s) - Len(pat)) : SubSeq(s, i + 1, i + Len(pat)) = pat

\* s.split(c)[0] for a one-character separator c: the text before the first c
SplitFirst(s, c) ==
    IF \E i \in 1..Len(s) : s[i] = c
    THEN LET k == CHOOSE i \in 1..Len(s) :
                    /\ s[i] = c
                    /\ \A j \in 1..(i - 1) : s[j] # c
         IN SubSeq(s, 1, k - 1)
    ELSE s

(***************************************************************************)
(* shouldInjectPluginMetadata.  An environment variable is unset or holds  *)
(* a string; an unset variable and the empty string are both falsy.        *)
(***************************************************************************)
EnvUnset == [set |-> FALSE, val |-> <<>>]
EnvVal(s) == [set |-> TRUE, val |-> s]

Truthy(v) == v.set /\ v.val # <<>>

PERIODIC == <<"p", "e", "r", "i", "o", "d", "i", "c", "-">>

jobNameOf(e) == IF Truthy(e.JOB_NAME) THEN e.JOB_NAME.val ELSE <<>>

\* A policy that looks for "periodic-" at the start of the job name only.
shouldInjectIfNotPrefixed(e) ==
    IF Truthy(e.RHDH_SKIP_PLUGIN_METADATA_INJECTION) THEN FALSE
    ELSE IF /\ Len(jobNameOf(e)) >= Len(PERIODIC)
            /\ SubSeq(jobNameOf(e), 1, Len(PERIODIC)) = PERIODIC THEN FALSE
    ELSE TRUE

shouldInjectPluginMetadata(e) ==
    IF Truthy(e.RHDH_SKIP_PLUGIN_METADATA_INJECTION) THEN FALSE
    ELSE IF StrIncludes(jobNameOf(e), PERIODIC) THEN FALSE
    ELSE TRUE

(***************************************************************************)
(* extractPluginName.  Its regular expression is, in order: a "/", a     *)
(* captured greedy run of one or more characters other than "/", ":" and   *)
(* "@", an optional group made of a ":" or "@" followed by any characters, *)
(* and the end of the text.  It is matched leftmost-first against the text *)
(* before the first "!".  No enumerated character is a line terminator, so *)
(* the any-character wildcard matches each of them.                        *)
(***************************************************************************)
SegmentChar(ch) == ch \notin {"/", ":", "@"}

\* End of the greedy run [^/:@]+ that starts right after position i
\* (i itself when the run is empty).
RunEnd(s, i) ==
    CHOOSE k \in i..Len(s) :
        /\ \A j \in (i + 1)..k : SegmentChar(s[j])
        /\ (k = Len(s) \/ ~SegmentChar(s[k + 1]))

\* The pattern matches with its "/" at position i: a non-empty run, then
\* either the end of the text or a ":" / "@" followed by anything.  A
\* shorter run cannot match: the character after it is a segment character.
MatchAt(s, i) ==
    /\ s[i] = "/"
    /\ RunEnd(s, i) > i
    /\ (RunEnd(s, i) = Len(s) \/ s[RunEnd(s, i) + 1] \in {":", "@"})

NoMatch == [found |-> FALSE, group1 |-> <<>>]

\* ref.match(re): the leftmost position at which the pattern matches
RegexMatch(s) ==
    IF \E i \in 1..Len(s) : MatchAt(s, i)
    THEN LET at == CHOOSE i \in 1..Len(s) :
                     /\ MatchAt(s, i)
                     /\ \A j \in 1..(i - 1) : ~MatchAt(s, j)
         IN [found |-> TRUE, group1 |-> SubSeq(s, at + 1, RunEnd(s, at))]
    ELSE NoMatch

\* A reference whose alias is never cut off.
StripAliasNever(packageRef) == packageRef

\* The text the pattern is applied to: packageRef.split("!")[0] when the
\* reference includes "!", the reference itself otherwise.
StripAlias(packageRef) ==
    IF StrIncludes(packageRef, <<"!">>) THEN SplitFirst(packageRef, "!")
    ELSE packageRef

\* A fallback to the stripped text instead of the original reference.
FallbackToRef(packageRef, match) ==
    IF match.found /\ match.group1 # <<>> THEN match.group1
    ELSE StripAlias(packageRef)

\* match?.[1] || packageRef
Fallback(packageRef, match) ==
    IF match.found /\ match.group1 # <<>> THEN match.group1 ELSE packageRef

extractPluginName(packageRef) ==
    Fallback(packageRef, RegexMatch(StripAlias(packageRef)))

(***************************************************************************)
(* Configuration values.  A YAML value is a mapping or a non-mapping value *)
(* (scalar, list, null); a mapping is a function from its keys.            *)
(***************************************************************************)
Leaf(v) == [t |-> "leaf", v |-> v]
MapOf(f) == [t |-> "map", m |-> f]
IsMap(c) == c.t = "map"
EmptyMap == MapOf(<<>>)

\* deepMerge of merge-yamls: mappings merge key by key, recursively; where
\* either side holds a non-mapping value the override's value wins.
RECURSIVE deepMerge(_, _)
deepMerge(base, override) ==
    MapOf([k \in (DOMAIN base.m) \cup (DOMAIN override.m) |->
            IF k \notin DOMAIN override.m THEN base.m[k]
            ELSE IF k \notin DOMAIN base.m THEN override.m[k]
            ELSE IF IsMap(base.m[k]) /\ IsMap(override.m[k])
                 THEN deepMerge(base.m[k], override.m[k])
                 ELSE override.m[k]])

(***************************************************************************)
(* Map<string, PluginMetadata>: the entries in insertion order.  set() on  *)
(* a key already present replaces its value and keeps its position.        *)
(***************************************************************************)
MapHas(m, k) == \E i \in 1..Len(m) : m[i].key = k

MapGet(m, k) == m[CHOOSE i \in 1..Len(m) : m[i].key = k].value

\* A set() that appends an entry whether or not the key is present.
MapSetAlwaysAppend(m, k, v) == Append(m, [key |-> k, value |-> v])

\* A set() that keeps the value a key already has.
MapSetFirstWins(m, k, v) ==
    IF MapHas(m, k) THEN m ELSE Append(m, [key |-> k, value |-> v])

MapSet(m, k, v) ==
    IF MapHas(m, k)
    THEN [i \in 1..Len(m) |-> IF m[i].key = k THEN [key |-> k, value |-> v]
                                               ELSE m[i]]
    ELSE Append(m, [key |-> k, value |-> v])

(***************************************************************************)
(* injectMetadataConfig.  A plugin entry and a document are records whose  *)
(* optional fields are present or not.                                     *)
(***************************************************************************)
\* plugin.pluginConfig || {}
UserConfigOrEmpty(plugin) ==
    IF "pluginConfig" \in DOMAIN plugin THEN plugin.pluginConfig ELSE EmptyMap

\* A merge with base and override exchanged.
MergedPluginConfigSwapped(metadata, plugin) ==
    deepMerge(UserConfigOrEmpty(plugin), metadata.pluginConfig)

\* deepMerge(metadata.pluginConfig, plugin.pluginConfig || {})
MergedPluginConfig(metadata, plugin) ==
    deepMerge(metadata.pluginConfig, UserConfigOrEmpty(plugin))

\* An entry rebuilt from its package and the merged configuration alone.
WithPluginConfigOnly(plugin, c) ==
    [package |-> plugin.package, pluginConfig |-> c]

\* { ...plugin, pluginConfig: c }
WithPluginConfig(plugin, c) ==
    [f \in (DOMAIN plugin) \cup {"pluginConfig"} |->
        IF f = "pluginConfig" THEN c ELSE plugin[f]]

\* A callback that gives every unmatched entry an empty pluginConfig.
AugmentPluginDefaulting(plugin, metadataMap) ==
    LET pluginName == extractPluginName(plugin.package)
    IN IF ~MapHas(metadataMap, pluginName)
       THEN WithPluginConfig(plugin, UserConfigOrEmpty(plugin))
       ELSE WithPluginConfig(plugin,
                MergedPluginConfig(MapGet(metadataMap, pluginName), plugin))

\* The callback of plugins.map
\* A transform that injects only into entries that carry a pluginConfig.
AugmentPluginConfiguredOnly(plugin, metadataMap) ==
    LET pluginName == extractPluginName(plugin.package)
    IN IF ~MapHas(metadataMap, pluginName) \/ "pluginConfig" \notin DOMAIN plugin
       THEN plugin
       ELSE WithPluginConfig(plugin,
                MergedPluginConfig(MapGet(metadataMap, pluginName), plugin))

AugmentPlugin(plugin, metadataMap) ==
    LET pluginName == extractPluginName(plugin.package)
    IN IF ~MapHas(metadataMap, pluginName)
       THEN plugin
       ELSE WithPluginConfig(plugin,
                MergedPluginConfig(MapGet(metadataMap, pluginName), plugin))

\* A transform that appends the augmented entries to the given list.
AugmentedPluginsAppended(plugins, metadataMap) ==
    plugins \o [i \in 1..Len(plugins) |-> AugmentPlugin(plugins[i], metadataMap)]

\* A transform that keeps only the entries that have metadata.
AugmentedPluginsMatchedOnly(plugins, metadataMap) ==
    LET kept == SelectSeq(plugins,
                    LAMBDA pl : MapHas(metadataMap, extractPluginName(pl.package)))
    IN [i \in 1..Len(kept) |-> AugmentPlugin(kept[i], metadataMap)]

\* dynamicPluginsConfig.plugins.map(callback)
AugmentedPlugins(plugins, metadataMap) ==
    [i \in 1..Len(plugins) |-> AugmentPlugin(plugins[i], metadataMap)]

\* An injection that reads the plugins list with optional chaining.
injectMetadataConfigLenient(dynamicPluginsConfig, metadataMap) ==
    IF dynamicPluginsConfig = Undefined
    THEN Return(dynamicPluginsConfig)
    ELSE IF "plugins" \notin DOMAIN dynamicPluginsConfig
    THEN Return(dynamicPluginsConfig)
    ELSE Return([f \in DOMAIN dynamicPluginsConfig |->
                    IF f = "plugins"
                    THEN AugmentedPlugins(dynamicPluginsConfig.plugins, metadataMap)
                    ELSE dynamicPluginsConfig[f]])

\* An injection that gives a document without plugins an empty list.
injectMetadataConfigDefaultList(dynamicPluginsConfig, metadataMap) ==
    IF dynamicPluginsConfig = Undefined
    THEN Throw("TypeError",
               [text |-> "Cannot read properties of undefined (reading 'plugins')"])
    ELSE IF "plugins" \notin DOMAIN dynamicPluginsConfig
    THEN Return([f \in (DOMAIN dynamicPluginsConfig) \cup {"plugins"} |->
                    IF f = "plugins" THEN <<>> ELSE dynamicPluginsConfig[f]])
    ELSE Return([f \in DOMAIN dynamicPluginsConfig |->
                    IF f = "plugins"
                    THEN AugmentedPlugins(dynamicPluginsConfig.plugins, metadataMap)
                    ELSE dynamicPluginsConfig[f]])

\* Reading .plugins of undefined throws a TypeError.
injectMetadataConfig(dynamicPluginsConfig, metadataMap) ==
    IF dynamicPluginsConfig = Undefined
    THEN Throw("TypeError",
               [text |-> "Cannot read properties of undefined (reading 'plugins')"])
    ELSE IF "plugins" \notin DOMAIN dynamicPluginsConfig
    THEN Return(dynamicPluginsConfig)
    ELSE Return([f \in DOMAIN dynamicPluginsConfig |->
                    IF f = "plugins"
                    THEN AugmentedPlugins(dynamicPluginsConfig.plugins, metadataMap)
                    ELSE dynamicPluginsConfig[f]])

(***************************************************************************)
(* getMetadataDirectory.  Every operation that touches the file system     *)
(* yields its outcome and the accesses it made: [ret, log].                *)
(***************************************************************************)
Null == [js |-> "null"]

DEFAULT_METADATA_PATH == "../metadata"

\* path.resolve(metadataPath): the absolute form of the path
Resolve(metadataPath) == [absolute |-> metadataPath]

\* fs.existsSync(p) && fs.statSync(p).isDirectory(): statSync runs only when
\* the path exists.
IsDirectoryLog(kind) ==
    IF kind = "missing" THEN <<"existsSync">> ELSE <<"existsSync", "statSync">>

\* A lookup that tests existence alone.
getMetadataDirectoryExistsOnly(kind, metadataPath) ==
    [ret |-> IF kind # "missing" THEN Return(Resolve(metadataPath))
                                 ELSE Return(Null),
     log |-> <<"existsSync">>]

getMetadataDirectory(kind, metadataPath) ==
    [ret |-> IF kind = "dir" THEN Return(Resolve(metadataPath)) ELSE Return(Null),
     log |-> IsDirectoryLog(kind)]

(***************************************************************************)
(* parseMetadataFile.  A descriptor file either makes readFile or         *)
(* yaml.load throw, or parses to a document whose optional fields are      *)
(* present or not.                                                         *)
(***************************************************************************)
\* Values of the parsed YAML document, by JavaScript type.
Str(s) == [js |-> "string", s |-> s]
Obj(c) == [js |-> "object", o |-> c]
Arr(items) == [js |-> "array", items |-> items]

\* !v : undefined, null and the empty string are falsy; objects (the empty
\* one too) and arrays are truthy.
Falsy(v) == v.js \in {"undefined", "null"} \/ (v.js = "string" /\ v.s = <<>>)

\* parsed?.spec?.[field]
SpecField(parsed, field) ==
    IF "spec" \in DOMAIN parsed /\ field \in DOMAIN parsed.spec
    THEN parsed.spec[field]
    ELSE Undefined

\* The content of the first example that has one.
FirstExampleContentAny(parsed) ==
    LET examples == SpecField(parsed, "appConfigExamples")
    IN IF examples.js # "array" THEN Undefined
       ELSE LET withContent == {i \in 1..Len(examples.items) :
                                   "content" \in DOMAIN examples.items[i]}
            IN IF withContent = {} THEN Undefined
               ELSE examples.items[CHOOSE i \in withContent :
                                      \A j \in withContent : i <= j].content

\* parsed?.spec?.appConfigExamples?.[0]?.content
FirstExampleContent(parsed) ==
    LET examples == SpecField(parsed, "appConfigExamples")
    IN IF examples.js # "array" THEN Undefined
       ELSE IF Len(examples.items) = 0 THEN Undefined
       ELSE IF "content" \in DOMAIN examples.items[1]
            THEN examples.items[1].content
            ELSE Undefined

\* A parser that does not test the artifact path.
parseMetadataFileAnyArtifact(file) ==
    [ret |->
        IF file.kind = "throws" THEN Return(Null)
        ELSE LET packagePath == SpecField(file.parsed, "dynamicArtifact")
                 packageName == SpecField(file.parsed, "packageName")
                 pluginConfig == FirstExampleContent(file.parsed)
             IN IF Falsy(pluginConfig) THEN Return(Null)
                ELSE Return([packagePath |-> IF Falsy(packagePath) THEN <<>>
                                             ELSE packagePath.s,
                             pluginConfig |-> pluginConfig.o,
                             packageName |-> IF Falsy(packageName) THEN <<>>
                                             ELSE packageName.s,
                             sourceFile |-> file.name]),
     log |-> <<"readFile">>]

\* A parser that gives a descriptor without examples an empty configuration.
parseMetadataFileDefaulting(file) ==
    [ret |->
        IF file.kind = "throws" THEN Return(Null)
        ELSE LET packagePath == SpecField(file.parsed, "dynamicArtifact")
                 packageName == SpecField(file.parsed, "packageName")
                 pluginConfig == FirstExampleContent(file.parsed)
             IN IF Falsy(packagePath) THEN Return(Null)
                ELSE Return([packagePath |-> packagePath.s,
                             pluginConfig |-> IF Falsy(pluginConfig) THEN EmptyMap
                                              ELSE pluginConfig.o,
                             packageName |-> IF Falsy(packageName) THEN <<>>
                                             ELSE packageName.s,
                             sourceFile |-> file.name]),
     log |-> <<"readFile">>]

parseMetadataFile(file) ==
    [ret |->
        IF file.kind = "throws" THEN Return(Null)
        ELSE LET packagePath == SpecField(file.parsed, "dynamicArtifact")
                 packageName == SpecField(file.parsed, "packageName")
                 pluginConfig == FirstExampleContent(file.parsed)
             IN IF Falsy(packagePath) THEN Return(Null)
                ELSE IF Falsy(pluginConfig) THEN Return(Null)
                ELSE Return([packagePath |-> packagePath.s,
                             pluginConfig |-> pluginConfig.o,
                             packageName |-> IF Falsy(packageName) THEN <<>>
                                             ELSE packageName.s,
                             sourceFile |-> file.name]),
     log |-> <<"readFile">>]

(***************************************************************************)
(* parseAllMetadataFiles: glob, then one parseMetadataFile per file in the *)
(* order glob yields them, each record set under extractPluginName of its  *)
(* artifact path.                                                          *)
(***************************************************************************)
RECURSIVE ScanFromAborting(_, _, _)
\* A scan that stops at the first file that yields no record.
ScanFromAborting(fileList, i, metadataMap) ==
    IF i > Len(fileList) THEN metadataMap
    ELSE LET metadata == parseMetadataFile(fileList[i]).ret.val
         IN IF metadata = Null THEN metadataMap
            ELSE ScanFromAborting(fileList, i + 1,
                    MapSet(metadataMap, extractPluginName(metadata.packagePath),
                           metadata))

RECURSIVE ScanFrom(_, _, _)
ScanFrom(fileList, i, metadataMap) ==
    IF i > Len(fileList) THEN metadataMap
    ELSE LET metadata == parseMetadataFile(fileList[i]).ret.val
         IN ScanFrom(fileList, i + 1,
                IF metadata # Null
                THEN MapSet(metadataMap, extractPluginName(metadata.packagePath),
                            metadata)
                ELSE metadataMap)

parseAllMetadataFiles(fileList) ==
    [ret |-> Return(ScanFrom(fileList, 1, <<>>)),
     log |-> <<"glob">> \o [i \in 1..Len(fileList) |-> "readFile"]]

(***************************************************************************)
(* generateDynamicPluginsConfigFromMetadata                                *)
(***************************************************************************)
ErrorAt(text, metadataPath) ==
    Throw("Error", [text |-> text, path |-> Resolve(metadataPath)])

\* Entries that name the plugin by its index key instead of its artifact path.
PluginsFromMetadataByName(metadataMap) ==
    [i \in 1..Len(metadataMap) |->
        [package |-> metadataMap[i].key,
         disabled |-> FALSE,
         pluginConfig |-> metadataMap[i].value.pluginConfig]]

PluginsFromMetadata(metadataMap) ==
    [i \in 1..Len(metadataMap) |->
        [package |-> metadataMap[i].value.packagePath,
         disabled |-> FALSE,
         pluginConfig |-> metadataMap[i].value.pluginConfig]]

\* A generator that never consults the gating policy.
generateUngated(e, kind, fileList, metadataPath) ==
    LET dir == getMetadataDirectory(kind, metadataPath)
        scan == parseAllMetadataFiles(fileList)
    IN IF dir.ret.val = Null
       THEN [ret |-> ErrorAt("Cannot generate dynamic-plugins config: metadata directory not found at",
                             metadataPath),
             log |-> dir.log]
       ELSE IF Len(scan.ret.val) = 0
       THEN [ret |-> ErrorAt("Cannot generate dynamic-plugins config: no valid metadata files found in",
                             metadataPath),
             log |-> dir.log \o scan.log]
       ELSE [ret |-> Return([plugins |-> PluginsFromMetadata(scan.ret.val)]),
             log |-> dir.log \o scan.log]

\* A generator that answers an empty index with an empty plugin list.
generateLenient(e, kind, fileList, metadataPath) ==
    IF ~shouldInjectPluginMetadata(e)
    THEN [ret |-> Return([plugins |-> <<>>]), log |-> <<>>]
    ELSE LET dir == getMetadataDirectory(kind, metadataPath)
             scan == parseAllMetadataFiles(fileList)
         IN IF dir.ret.val = Null
            THEN [ret |-> ErrorAt("Cannot generate dynamic-plugins config: metadata directory not found at",
                                  metadataPath),
                  log |-> dir.log]
            ELSE [ret |-> Return([plugins |-> PluginsFromMetadata(scan.ret.val)]),
                  log |-> dir.log \o scan.log]

generateDynamicPluginsConfigFromMetadata(e, kind, fileList, metadataPath) ==
    IF ~shouldInjectPluginMetadata(e)
    THEN [ret |-> Return([plugins |-> <<>>]), log |-> <<>>]
    ELSE LET dir == getMetadataDirectory(kind, metadataPath)
             scan == parseAllMetadataFiles(fileList)
         IN IF dir.ret.val = Null
            THEN [ret |-> ErrorAt("Cannot generate dynamic-plugins config: metadata directory not found at",
                                  metadataPath),
                  log |-> dir.log]
            ELSE IF Len(scan.ret.val) = 0
            THEN [ret |-> ErrorAt("Cannot generate dynamic-plugins config: no valid metadata files found in",
                                  metadataPath),
                  log |-> dir.log \o scan.log]
            ELSE [ret |-> Return([plugins |-> PluginsFromMetadata(scan.ret.val)]),
                  log |-> dir.log \o scan.log]

(***************************************************************************)
(* loadAndInjectPluginMetadata                                             *)
(***************************************************************************)
\* A loader that injects from an empty index.
LoadEnabledEmptyIndex(kind, fileList, dynamicPluginsConfig, metadataPath) ==
    LET dir == getMetadataDirectory(kind, metadataPath)
        scan == parseAllMetadataFiles(fileList)
    IN IF dir.ret.val = Null
       THEN [ret |-> ErrorAt("PR build requires metadata directory but not found at",
                             metadataPath),
             log |-> dir.log]
       ELSE [ret |-> injectMetadataConfig(dynamicPluginsConfig, scan.ret.val),
             log |-> dir.log \o scan.log]

\* A loader that passes the document through when the directory is missing.
LoadEnabledOptionalDir(kind, fileList, dynamicPluginsConfig, metadataPath) ==
    LET dir == getMetadataDirectory(kind, metadataPath)
        scan == parseAllMetadataFiles(fileList)
    IN IF dir.ret.val = Null
       THEN [ret |-> Return(dynamicPluginsConfig), log |-> dir.log]
       ELSE IF Len(scan.ret.val) = 0
       THEN [ret |-> ErrorAt("PR build requires plugin metadata but no valid metadata files found in",
                             metadataPath),
             log |-> dir.log \o scan.log]
       ELSE [ret |-> injectMetadataConfig(dynamicPluginsConfig, scan.ret.val),
             log |-> dir.log \o scan.log]

\* The function from its "Loading plugin metadata..." line on.
LoadEnabled(kind, fileList, dynamicPluginsConfig, metadataPath) ==
    LET dir == getMetadataDirectory(kind, metadataPath)
        scan == parseAllMetadataFiles(fileList)
    IN IF dir.ret.val = Null
       THEN [ret |-> ErrorAt("PR build requires metadata directory but not found at",
                             metadataPath),
             log |-> dir.log]
       ELSE IF Len(scan.ret.val) = 0
       THEN [ret |-> ErrorAt("PR build requires plugin metadata but no valid metadata files found in",
                             metadataPath),
             log |-> dir.log \o scan.log]
       ELSE [ret |-> injectMetadataConfig(dynamicPluginsConfig, scan.ret.val),
             log |-> dir.log \o scan.log]

\* A loader that never consults the gating policy.
loadAndInjectUngated(e, kind, fileList, dynamicPluginsConfig, metadataPath) ==
    LoadEnabled(kind, fileList, dynamicPluginsConfig, metadataPath)

loadAndInjectPluginMetadata(e, kind, fileList, dynamicPluginsConfig, metadataPath) ==
    IF ~shouldInjectPluginMetadata(e)
    THEN [ret |-> Return(dynamicPluginsConfig), log |-> <<>>]
    ELSE LoadEnabled(kind, fileList, dynamicPluginsConfig, metadataPath)

(***************************************************************************)
(* Inputs of extractPluginName: every reference of at most MaxLen          *)
(* characters over Alphabet, and the references the documentation shows.   *)
(***************************************************************************)
Alphabet == {"a", "b", "/", ":", "@", "!"}

Refs == UNION {[1..n -> Alphabet] : n \in 0..MaxLen}

DocLocalPath ==
    <<".", "/", "d", "y", "n", "a", "m", "i", "c", "-", "p", "l", "u", "g",
      "i", "n", "s", "/", "d", "i", "s", "t", "/", "m", "y", "-", "p", "l",
      "u", "g", "i", "n">>
DocOciTag ==
    <<"o", "c", "i", ":", "/", "/", "q", "u", "a", "y", ".", "i", "o", "/",
      "r", "h", "d", "h", "/", "m", "y", "-", "p", "l", "u", "g", "i", "n",
      ":", "1", ".", "0", ".", "0">>
DocOciDigest ==
    <<"o", "c", "i", ":", "/", "/", "q", "u", "a", "y", ".", "i", "o", "/",
      "r", "h", "d", "h", "/", "m", "y", "-", "p", "l", "u", "g", "i", "n",
      "@", "s", "h", "a", "2", "5", "6", ":", "a", "b", "c", "1", "2", "3">>
DocGhcr ==
    <<"g", "h", "c", "r", ".", "i", "o", "/", "o", "r", "g", "/", "r", "e",
      "p", "o", "/", "m", "y", "-", "p", "l", "u", "g", "i", "n", ":", "t",
      "a", "g">>
DocOciAlias ==
    <<"o", "c", "i", ":", "/", "/", "q", "u", "a", "y", ".", "i", "o", "/",
      "r", "h", "d", "h", "/", "p", "l", "u", "g", "i", "n", "@", "s", "h",
      "a", "2", "5", "6", ":", "a", "b", "c", "!", "m", "y", "-", "a", "l",
      "i", "a", "s">>
Plugin == <<"p", "l", "u", "g", "i", "n">>

DocRefs == {DocLocalPath, DocOciTag, DocOciDigest, DocGhcr, DocOciAlias}

(***************************************************************************)
(* SpecExtract: extractPluginName applied to one reference.                *)
(***************************************************************************)
NoEnv == [RHDH_SKIP_PLUGIN_METADATA_INJECTION |-> EnvUnset, JOB_NAME |-> EnvUnset]

InitExtract ==
    /\ env = NoEnv
    /\ dirKind = "missing"
    /\ files = <<>>
    /\ pc = "call"
    /\ op = "extractPluginName"
    /\ arg \in Refs \cup DocRefs
    /\ ret = NoRet
    /\ fsLog = <<>>
    /\ console = NoConsole
    /\ page = NoPage
    /\ heap = NoHeap

ExtractPluginName ==
    /\ pc = "call"
    /\ op = "extractPluginName"
    /\ ret' = Return(extractPluginName(arg))
    /\ pc' = "done"
    /\ UNCHANGED <<env, dirKind, files, op, arg, fsLog, console, page, heap>>

NextExtract == ExtractPluginName

SpecExtract == InitExtract /\ [][NextExtract]_vars

Extracted == pc = "done" /\ op = "extractPluginName"

(***************************************************************************)
(* Properties of extractPluginName (checked under SpecExtract).            *)
(***************************************************************************)
HasChar(s, c) == \E i \in 1..Len(s) : s[i] = c

\* The characters after the final "/" of r (r itself when it has none).
LastSegment(r) ==
    IF HasChar(r, "/")
    THEN SubSeq(r, 1 + CHOOSE i \in 1..Len(r) :
                        r[i] = "/" /\ \A j \in (i + 1)..Len(r) : r[j] # "/",
                Len(r))
    ELSE r

\* seg without its ":tag" or "@digest" suffix: the text before the first
\* ":" or "@".
StripSuffix(seg) ==
    IF \E i \in 1..Len(seg) : seg[i] \in {":", "@"}
    THEN SubSeq(seg, 1, (CHOOSE i \in 1..Len(seg) :
                            /\ seg[i] \in {":", "@"}
                            /\ \A j \in 1..(i - 1) : seg[j] \notin {":", "@"}) - 1)
    ELSE seg

\* C5: for every reference without "!" that contains a "/",
\* extractPluginName returns the last "/"-delimited segment with any trailing
\* ":tag" or "@digest" stripped, also when a ":" or "@" occurs before a
\* later "/".  Stated on the references whose stripped last segment is not
\* empty; the empty one is the fallback case of C7.
C5_LastSegment ==
    (/\ Extracted
     /\ ~HasChar(arg, "!")
     /\ HasChar(arg, "/")
     /\ StripSuffix(LastSegment(arg)) # <<>>)
        => ret = Return(StripSuffix(LastSegment(arg)))

\* The text before the first "!" of r, for r that has one.
BeforeBang(r) ==
    SubSeq(r, 1, (CHOOSE k \in 1..Len(r) :
                    r[k] = "!" /\ \A j \in 1..(k - 1) : r[j] # "!") - 1)

\* C6: when the reference contains "!", everything from the first "!" on is
\* discarded before the segment is extracted: if the text before the "!"
\* holds a path segment, the result is the identifier of that text alone,
\* and it holds no "!" (nothing of the alias reaches it); the reference
\* oci://quay.io/rhdh/plugin@sha256:abc!my-alias yields plugin.
C6_AliasDiscarded ==
    (Extracted /\ HasChar(arg, "!")) =>
        /\ RegexMatch(BeforeBang(arg)).found =>
              /\ ret = Return(extractPluginName(BeforeBang(arg)))
              /\ ~HasChar(ret.val, "!")
        /\ arg = DocOciAlias => ret = Return(Plugin)

C6_Witness ==
    /\ Extracted
    /\ arg = DocOciAlias
    /\ ret = Return(Plugin)

\* C7: for every reference that ends in "/", and for the empty reference,
\* extractPluginName returns the reference unchanged.  Stated on the
\* references without "!", where no alias is cut off before the match.
C7_TrailingSlash ==
    (/\ Extracted
     /\ ~HasChar(arg, "!")
     /\ (arg = <<>> \/ arg[Len(arg)] = "/"))
        => ret = Return(arg)

\* C8: for every reference that contains no "/", extractPluginName returns
\* the reference exactly, with any "!alias", ":tag" or "@digest" part.
C8_NoSlashIdentity ==
    (Extracted /\ ~HasChar(arg, "/")) => ret = Return(arg)

C8_Witness ==
    /\ Extracted
    /\ arg = <<"a", ":", "b", "!", "a">>
    /\ ret = Return(arg)

(***************************************************************************)
(* Inputs of injectMetadataConfig.  Metadata values and user values use    *)
(* different scalars, so that a merged value shows where it came from.     *)
(***************************************************************************)
TopKeys == {"a"}
InnerKeys == {"x", "y"}
CfgKeys == TopKeys \cup InnerKeys

Leaves(vals) == {Leaf(v) : v \in vals}

InnerMaps(vals) ==
    {MapOf(f) : f \in UNION {[D -> Leaves(vals)] : D \in SUBSET InnerKeys}}

Configs(vals) ==
    {MapOf(f) : f \in UNION {[D -> Leaves(vals) \cup InnerMaps(vals)] :
                                D \in SUBSET TopKeys}}

\* {a: {x: vx, y: vy}} and {a: {y: vy}}
XY(vx, vy) == MapOf([k \in {"a"} |->
                MapOf([j \in {"x", "y"} |-> IF j = "x" THEN Leaf(vx) ELSE Leaf(vy)])])
OnlyY(vy) == MapOf([k \in {"a"} |-> MapOf([j \in {"y"} |-> Leaf(vy)])])

MetaCfgs == Configs({1})
UserCfgs == Configs({2})

\* Package references of plugin entries: a local path and an OCI reference
\* with digest and alias that both name plugin a, and a tagged one naming b.
PkgLocalA == <<".", "/", "d", "/", "a">>
PkgOciA == <<"o", ":", "/", "/", "q", "/", "a", "@", "s", ":", "1", "!", "b">>
PkgTagB == <<"q", "/", "r", "/", "b", ":", "t">>

BaseEntries ==
    { [package |-> PkgLocalA],
      [package |-> PkgOciA, disabled |-> TRUE],
      [package |-> PkgTagB, disabled |-> FALSE, integrity |-> "sha512-x"] }

Entries ==
    BaseEntries \cup {WithPluginConfig(e, c) : e \in BaseEntries, c \in UserCfgs}

PluginLists == UNION {[1..n -> Entries] : n \in 0..MaxPlugins}

Includes == <<"dynamic-plugins.default.yaml">>

Docs ==
    {[includes |-> Includes]}
        \cup {[plugins |-> l] : l \in PluginLists}
        \cup {[includes |-> Includes, plugins |-> l] :
                l \in {x \in PluginLists : Len(x) <= 1}}

\* Metadata records as parseMetadataFile builds them.
ArtifactA == <<".", "/", "d", "/", "a">>
ArtifactB == <<".", "/", "d", "/", "b">>

Record(artifact, c, file) ==
    [packagePath |-> artifact, pluginConfig |-> c,
     packageName |-> <<>>, sourceFile |-> file]

\* An index holds each record under extractPluginName of its artifact path.
IndexOf(records) ==
    LET RECURSIVE Build(_, _)
        Build(m, i) ==
            IF i > Len(records) THEN m
            ELSE Build(MapSet(m, extractPluginName(records[i].packagePath),
                              records[i]), i + 1)
    IN Build(<<>>, 1)

\* {a: 1}
A1 == MapOf([k \in {"a"} |-> Leaf(1)])

RecordB == Record(ArtifactB, A1, "b.yaml")

Indexes ==
    {IndexOf(<<>>), IndexOf(<<RecordB>>)}
        \cup {IndexOf(<<Record(ArtifactA, c, "a.yaml")>>) : c \in MetaCfgs}
        \cup {IndexOf(<<RecordB, Record(ArtifactA, c, "a.yaml")>>) : c \in MetaCfgs}

(***************************************************************************)
(* SpecInject: injectMetadataConfig applied to one document and one index. *)
(***************************************************************************)
InitInject ==
    /\ env = NoEnv
    /\ dirKind = "missing"
    /\ files = <<>>
    /\ pc = "call"
    /\ op = "injectMetadataConfig"
    /\ arg \in {[cfg |-> d, metadataMap |-> m] : d \in Docs, m \in Indexes}
    /\ ret = NoRet
    /\ fsLog = <<>>
    /\ console = NoConsole
    /\ page = NoPage
    /\ heap = NoHeap

InjectMetadataConfig ==
    /\ pc = "call"
    /\ op = "injectMetadataConfig"
    /\ ret' = injectMetadataConfig(arg.cfg, arg.metadataMap)
    /\ pc' = "done"
    /\ UNCHANGED <<env, dirKind, files, op, arg, fsLog, console, page, heap>>

NextInject == InjectMetadataConfig

SpecInject == InitInject /\ [][NextInject]_vars

(***************************************************************************)
(* Properties of injectMetadataConfig (checked under SpecInject).          *)
(***************************************************************************)
Injected == pc = "done" /\ op = "injectMetadataConfig"

InjectedList == Injected /\ "plugins" \in DOMAIN arg.cfg

Absent == [t |-> "absent"]

\* The value a configuration holds at a path of keys, Absent when a key of
\* the path is missing or a non-mapping value is in the way.
RECURSIVE ValueAt(_, _)
ValueAt(c, path) ==
    IF path = <<>> THEN c
    ELSE IF IsMap(c) /\ Head(path) \in DOMAIN c.m
         THEN ValueAt(c.m[Head(path)], Tail(path))
         ELSE Absent

Paths == UNION {[1..n -> CfgKeys] : n \in 1..2}

Parent(path) == SubSeq(path, 1, Len(path) - 1)

\* The last key of the path is a key of the metadata's mapping there and not
\* of the user's mapping at the same place.
OnlyInMetadata(meta, user, path) ==
    /\ ValueAt(meta, path) # Absent
    /\ ValueAt(user, Parent(path)) # Absent
    /\ IsMap(ValueAt(user, Parent(path)))
    /\ ValueAt(user, path) = Absent

\* Both sides hold a value at the path and they do not merge (one of them is
\* no mapping).
KeyConflict(meta, user, path) ==
    /\ ValueAt(meta, path) # Absent
    /\ ValueAt(user, path) # Absent
    /\ ~(IsMap(ValueAt(meta, path)) /\ IsMap(ValueAt(user, path)))

Matched(plugin, metadataMap) ==
    MapHas(metadataMap, extractPluginName(plugin.package))

\* C1: every plugin entry whose canonical identifier has a record in the
\* index gets pluginConfig = deepMerge(record config, entry pluginConfig or
\* {}): each key present only in the metadata config keeps the metadata
\* value, and on each key conflict at every depth the user's value is the
\* one in the result.
C1_MergePrecedence ==
    InjectedList =>
        /\ ret.kind = "value"
        /\ Len(ret.val.plugins) = Len(arg.cfg.plugins)
        /\ \A i \in 1..Len(arg.cfg.plugins) :
              Matched(arg.cfg.plugins[i], arg.metadataMap) =>
                LET plugin == arg.cfg.plugins[i]
                    meta == MapGet(arg.metadataMap,
                                   extractPluginName(plugin.package)).pluginConfig
                    user == IF "pluginConfig" \in DOMAIN plugin
                            THEN plugin.pluginConfig ELSE EmptyMap
                    out == ret.val.plugins[i]
                IN /\ "pluginConfig" \in DOMAIN out
                   /\ out.pluginConfig = deepMerge(meta, user)
                   /\ \A path \in Paths :
                        /\ OnlyInMetadata(meta, user, path) =>
                              ValueAt(out.pluginConfig, path) = ValueAt(meta, path)
                        /\ KeyConflict(meta, user, path) =>
                              ValueAt(out.pluginConfig, path) = ValueAt(user, path)

\* deepMerge({a: {x:1, y:1}}, {a: {y:2}}) = {a: {x:1, y:2}} on a matched entry
C1_Witness ==
    /\ InjectedList
    /\ Len(arg.cfg.plugins) = MaxPlugins
    /\ arg.cfg.plugins[1] = [package |-> PkgOciA, disabled |-> TRUE,
                              pluginConfig |-> OnlyY(2)]
    /\ MapHas(arg.metadataMap, <<"a">>)
    /\ MapGet(arg.metadataMap, <<"a">>).pluginConfig = XY(1, 1)
    /\ ret.val.plugins[1].pluginConfig = XY(1, 2)

\* C9: a plugin entry whose canonical identifier has no record in the index
\* is returned with every field unchanged; an entry without pluginConfig
\* still has none.
C9_UnmatchedUnchanged ==
    InjectedList =>
        /\ ret.kind = "value"
        /\ Len(ret.val.plugins) = Len(arg.cfg.plugins)
        /\ \A i \in 1..Len(arg.cfg.plugins) :
              ~Matched(arg.cfg.plugins[i], arg.metadataMap) =>
                /\ ret.val.plugins[i] = arg.cfg.plugins[i]
                /\ DOMAIN ret.val.plugins[i] = DOMAIN arg.cfg.plugins[i]

C9_Witness ==
    /\ InjectedList
    /\ Len(arg.cfg.plugins) = MaxPlugins
    /\ arg.metadataMap # <<>>
    /\ ~Matched(arg.cfg.plugins[1], arg.metadataMap)
    /\ Matched(arg.cfg.plugins[2], arg.metadataMap)
    /\ "pluginConfig" \notin DOMAIN arg.cfg.plugins[1]
    /\ "pluginConfig" \notin DOMAIN ret.val.plugins[1]
    /\ ret.val.plugins[1] = arg.cfg.plugins[1]

\* C10: the output plugin list has the length of the input list and its i-th
\* entry has the package of the i-th input entry, whatever the index holds.
C10_Positional ==
    InjectedList =>
        /\ ret.kind = "value"
        /\ Len(ret.val.plugins) = Len(arg.cfg.plugins)
        /\ \A i \in 1..Len(arg.cfg.plugins) :
              ret.val.plugins[i].package = arg.cfg.plugins[i].package

C10_Witness ==
    /\ InjectedList
    /\ Len(arg.cfg.plugins) = MaxPlugins
    /\ Len(ret.val.plugins) = MaxPlugins
    /\ arg.cfg.plugins[1].package = PkgTagB
    /\ arg.cfg.plugins[2].package = PkgOciA
    /\ ~Matched(arg.cfg.plugins[1], arg.metadataMap)
    /\ Matched(arg.cfg.plugins[2], arg.metadataMap)
    /\ ret.val.plugins[1].package = PkgTagB
    /\ ret.val.plugins[2].package = PkgOciA

\* C11: a matched entry keeps every field other than pluginConfig verbatim
\* (package, disabled, passthrough fields), and the document keeps every
\* top-level field other than plugins (includes).
C11_OtherFieldsPreserved ==
    InjectedList =>
        /\ ret.kind = "value"
        /\ DOMAIN ret.val = DOMAIN arg.cfg
        /\ \A f \in (DOMAIN arg.cfg) \ {"plugins"} : ret.val[f] = arg.cfg[f]
        /\ Len(ret.val.plugins) = Len(arg.cfg.plugins)
        /\ \A i \in 1..Len(arg.cfg.plugins) :
              Matched(arg.cfg.plugins[i], arg.metadataMap) =>
                /\ DOMAIN ret.val.plugins[i] =
                        (DOMAIN arg.cfg.plugins[i]) \cup {"pluginConfig"}
                /\ \A f \in (DOMAIN arg.cfg.plugins[i]) \ {"pluginConfig"} :
                        ret.val.plugins[i][f] = arg.cfg.plugins[i][f]

C11_Witness ==
    /\ InjectedList
    /\ "includes" \in DOMAIN arg.cfg
    /\ Len(arg.cfg.plugins) = 1
    /\ arg.cfg.plugins[1] = [package |-> PkgTagB, disabled |-> FALSE,
                              integrity |-> "sha512-x"]
    /\ Matched(arg.cfg.plugins[1], arg.metadataMap)
    /\ ret.val.includes = Includes
    /\ ret.val.plugins[1] = [package |-> PkgTagB, disabled |-> FALSE,
                              integrity |-> "sha512-x", pluginConfig |-> A1]

\* C12: a document without a plugins list is returned unchanged, with no
\* error, whatever the index holds.
C12_NoPluginsUnchanged ==
    (Injected /\ "plugins" \notin DOMAIN arg.cfg) => ret = Return(arg.cfg)

C12_Witness ==
    /\ Injected
    /\ "plugins" \notin DOMAIN arg.cfg
    /\ Len(arg.metadataMap) = 2
    /\ ret = Return([includes |-> Includes])

\* C24: deepMerge(base, {}) equals base for every base, so a matched entry
\* whose pluginConfig is absent or empty receives a pluginConfig equal to
\* the metadata record's configuration.
C24_EmptyOverride ==
    /\ \A base \in MetaCfgs \cup UserCfgs : deepMerge(base, EmptyMap) = base
    /\ InjectedList =>
          \A i \in 1..Len(arg.cfg.plugins) :
              LET plugin == arg.cfg.plugins[i]
              IN (/\ Matched(plugin, arg.metadataMap)
                  /\ \/ "pluginConfig" \notin DOMAIN plugin
                     \/ plugin.pluginConfig = EmptyMap) =>
                    /\ "pluginConfig" \in DOMAIN ret.val.plugins[i]
                    /\ ret.val.plugins[i].pluginConfig =
                          MapGet(arg.metadataMap,
                                 extractPluginName(plugin.package)).pluginConfig

C24_Witness ==
    /\ InjectedList
    /\ arg.cfg.plugins = <<[package |-> PkgLocalA],
                            [package |-> PkgOciA, disabled |-> TRUE,
                             pluginConfig |-> EmptyMap]>>
    /\ arg.metadataMap = IndexOf(<<Record(ArtifactA, XY(1, 1), "a.yaml")>>)
    /\ ret.val.plugins[1].pluginConfig = XY(1, 1)
    /\ ret.val.plugins[2].pluginConfig = XY(1, 1)

\* C28: injection is idempotent: injecting the same index into the result of
\* an injection gives that result again.
C28_Idempotent ==
    (Injected /\ ret.kind = "value") =>
        injectMetadataConfig(ret.val, arg.metadataMap) = ret

C28_Witness ==
    /\ InjectedList
    /\ arg.cfg.plugins = <<[package |-> PkgLocalA, pluginConfig |-> OnlyY(2)]>>
    /\ arg.metadataMap = IndexOf(<<Record(ArtifactA, XY(1, 1), "a.yaml")>>)
    /\ ret.val.plugins[1].pluginConfig = XY(1, 2)
    /\ ret.val # arg.cfg
    /\ injectMetadataConfig(ret.val, arg.metadataMap) = ret

(***************************************************************************)
(* Spec: the exported operations invoked in an environment and over a      *)
(* metadata directory.                                                     *)
(***************************************************************************)
Chars1 == <<"1">>
CharsFalse == <<"f", "a", "l", "s", "e">>
JobPeriodicNightly ==
    <<"p", "e", "r", "i", "o", "d", "i", "c", "-", "n", "i", "g", "h", "t",
      "l", "y", "-", "1">>
JobPullCi ==
    <<"p", "u", "l", "l", "-", "c", "i", "-", "r", "h", "d", "h", "-", "m",
      "a", "i", "n", "-", "e", "2", "e">>
JobMyPeriodicJob ==
    <<"m", "y", "-", "p", "e", "r", "i", "o", "d", "i", "c", "-", "j", "o", "b">>
JobPeriodicNoDash == <<"p", "e", "r", "i", "o", "d", "i", "c">>
JobNightlyPeriodic ==
    <<"n", "i", "g", "h", "t", "l", "y", "-", "p", "e", "r", "i", "o", "d",
      "i", "c">>

SkipValues == {EnvUnset, EnvVal(<<>>), EnvVal(Chars1), EnvVal(CharsFalse)}

JobValues ==
    {EnvUnset, EnvVal(JobPeriodicNightly), EnvVal(JobPullCi),
     EnvVal(JobMyPeriodicJob), EnvVal(JobPeriodicNoDash),
     EnvVal(JobNightlyPeriodic)}

Envs ==
    {[RHDH_SKIP_PLUGIN_METADATA_INJECTION |-> s, JOB_NAME |-> j] :
        s \in SkipValues, j \in JobValues}

\* Descriptor files.
ArtifactOciA == <<"o", ":", "/", "/", "q", "/", "a", ":", "t">>
ArtifactC == <<".", "/", "d", "/", "c">>
NameA == <<"@", "x", "/", "a">>
TitleChars == <<"t">>

FileThrows == [name |-> "broken.yaml", kind |-> "throws"]
FileEmpty == [name |-> "empty.yaml", kind |-> "parsed", parsed |-> <<>>]
FileNoArtifact ==
    [name |-> "no-artifact.yaml", kind |-> "parsed",
     parsed |-> [spec |-> [packageName |-> Str(NameA),
                           appConfigExamples |-> Arr(<<[content |-> Obj(A1)]>>)]]]
FileNoExamples ==
    [name |-> "no-examples.yaml", kind |-> "parsed",
     parsed |-> [spec |-> [dynamicArtifact |-> Str(ArtifactA)]]]
FileEmptyExamples ==
    [name |-> "empty-examples.yaml", kind |-> "parsed",
     parsed |-> [spec |-> [dynamicArtifact |-> Str(ArtifactA),
                           appConfigExamples |-> Arr(<<>>)]]]
FileFirstNoContent ==
    [name |-> "first-no-content.yaml", kind |-> "parsed",
     parsed |-> [spec |-> [dynamicArtifact |-> Str(ArtifactA),
                           appConfigExamples |->
                               Arr(<<[title |-> Str(TitleChars)],
                                     [content |-> Obj(A1)]>>)]]]
FileA1 ==
    [name |-> "a1.yaml", kind |-> "parsed",
     parsed |-> [spec |-> [dynamicArtifact |-> Str(ArtifactA),
                           packageName |-> Str(NameA),
                           appConfigExamples |->
                               Arr(<<[title |-> Str(TitleChars),
                                      content |-> Obj(XY(1, 1))],
                                     [content |-> Obj(OnlyY(1))]>>)]]]
FileA2 ==
    [name |-> "a2.yaml", kind |-> "parsed",
     parsed |-> [spec |-> [dynamicArtifact |-> Str(ArtifactOciA),
                           appConfigExamples |-> Arr(<<[content |-> Obj(A1)]>>)]]]
FileB ==
    [name |-> "b.yaml", kind |-> "parsed",
     parsed |-> [spec |-> [dynamicArtifact |-> Str(ArtifactB),
                           packageName |-> Str(<<>>),
                           appConfigExamples |-> Arr(<<[content |-> Obj(A1)]>>)]]]
FileC ==
    [name |-> "c.yaml", kind |-> "parsed",
     parsed |-> [spec |-> [dynamicArtifact |-> Str(ArtifactC),
                           appConfigExamples |-> Arr(<<[content |-> Obj(EmptyMap)]>>)]]]

DescriptorFiles ==
    {FileThrows, FileEmpty, FileNoArtifact, FileNoExamples, FileEmptyExamples,
     FileFirstNoContent,
     FileA1, FileA2, FileB, FileC}

\* A directory listing: distinct files, in any order.
Listings ==
    {l \in UNION {[1..n -> DescriptorFiles] : n \in 0..MaxFiles} :
        \A i, j \in 1..Len(l) : l[i] = l[j] => i = j}

MetadataPaths == {DEFAULT_METADATA_PATH, "./custom/metadata"}

PipelineDocs ==
    { Undefined,
      [includes |-> Includes],
      [plugins |-> <<>>],
      [includes |-> Includes, plugins |-> <<[package |-> PkgLocalA]>>],
      [plugins |-> <<[package |-> PkgOciA, disabled |-> TRUE,
                      pluginConfig |-> OnlyY(2)],
                     [package |-> PkgTagB, disabled |-> FALSE,
                      integrity |-> "sha512-x"]>>] }

Init ==
    /\ env \in Envs
    /\ \/ dirKind \in {"missing", "file"} /\ files = <<>>
       \/ dirKind = "dir" /\ files \in Listings
    /\ pc = "idle"
    /\ op = "none"
    /\ arg = <<>>
    /\ ret = NoRet
    /\ fsLog = <<>>
    /\ console = NoConsole
    /\ page = NoPage
    /\ heap = NoHeap

Invoke(name, a, outcome) ==
    /\ pc = "idle"
    /\ pc' = "done"
    /\ op' = name
    /\ arg' = a
    /\ ret' = outcome.ret
    /\ fsLog' = outcome.log
    /\ UNCHANGED <<env, dirKind, files, console, page, heap>>

ShouldInjectPluginMetadata ==
    Invoke("shouldInjectPluginMetadata", <<>>,
           [ret |-> Return(shouldInjectPluginMetadata(env)), log |-> <<>>])

GetMetadataDirectory ==
    \E metadataPath \in MetadataPaths :
        Invoke("getMetadataDirectory", [metadataPath |-> metadataPath],
               getMetadataDirectory(dirKind, metadataPath))

ParseMetadataFile ==
    \E i \in 1..Len(files) :
        Invoke("parseMetadataFile", [filePath |-> files[i].name],
               parseMetadataFile(files[i]))

ParseAllMetadataFiles ==
    Invoke("parseAllMetadataFiles", <<>>, parseAllMetadataFiles(files))

GenerateDynamicPluginsConfigFromMetadata ==
    \E metadataPath \in MetadataPaths :
        Invoke("generateDynamicPluginsConfigFromMetadata",
               [metadataPath |-> metadataPath],
               generateDynamicPluginsConfigFromMetadata(env, dirKind, files,
                                                        metadataPath))

LoadAndInjectPluginMetadata ==
    \E cfg \in PipelineDocs, metadataPath \in MetadataPaths :
        Invoke("loadAndInjectPluginMetadata",
               [cfg |-> cfg, metadataPath |-> metadataPath],
               loadAndInjectPluginMetadata(env, dirKind, files, cfg, metadataPath))

Next ==
    \/ ShouldInjectPluginMetadata
    \/ GetMetadataDirectory
    \/ ParseMetadataFile
    \/ ParseAllMetadataFiles
    \/ GenerateDynamicPluginsConfigFromMetadata
    \/ LoadAndInjectPluginMetadata

Spec == Init /\ [][Next]_vars

(***************************************************************************)
(* Properties of the gating policy and of the top-level entry point        *)
(* (checked under Spec).                                                   *)
(***************************************************************************)
\* The opt-out flag holds a truthy value (a non-empty string).
OptOutSet ==
    /\ env.RHDH_SKIP_PLUGIN_METADATA_INJECTION.set
    /\ Len(env.RHDH_SKIP_PLUGIN_METADATA_INJECTION.val) > 0

\* JOB_NAME is set and "periodic-" occurs somewhere in it.
JobIsPeriodic ==
    /\ env.JOB_NAME.set
    /\ \E i \in 1..Len(env.JOB_NAME.val) :
          /\ i + Len(PERIODIC) - 1 <= Len(env.JOB_NAME.val)
          /\ \A j \in 1..Len(PERIODIC) : env.JOB_NAME.val[i + j - 1] = PERIODIC[j]

GatingDisabled == OptOutSet \/ JobIsPeriodic

\* C2: shouldInjectPluginMetadata decides by first match: disabled when the
\* opt-out flag holds a truthy value, else disabled when JOB_NAME contains
\* "periodic-", else (JOB_NAME unset included) enabled.
C2_GatingFirstMatch ==
    (pc = "done" /\ op = "shouldInjectPluginMetadata") =>
        ret = Return(IF OptOutSet THEN FALSE
                     ELSE IF JobIsPeriodic THEN FALSE
                     ELSE TRUE)

C2_Witness ==
    /\ pc = "done"
    /\ op = "shouldInjectPluginMetadata"
    /\ env.RHDH_SKIP_PLUGIN_METADATA_INJECTION = EnvVal(<<>>)
    /\ env.JOB_NAME = EnvVal(JobMyPeriodicJob)
    /\ ret = Return(FALSE)

Loaded == pc = "done" /\ op = "loadAndInjectPluginMetadata"

\* C3: with gating disabled, loadAndInjectPluginMetadata returns its input
\* document unchanged, also when the input is absent and whatever the
\* metadata directory is or holds, and makes no directory lookup or file
\* read.
C3_DisabledPassThrough ==
    (Loaded /\ GatingDisabled) =>
        /\ ret = Return(arg.cfg)
        /\ fsLog = <<>>

C3_Witness ==
    /\ Loaded
    /\ env.JOB_NAME = EnvVal(JobPeriodicNightly)
    /\ ~OptOutSet
    /\ arg.cfg = Undefined
    /\ dirKind = "dir"
    /\ Len(files) = MaxFiles
    /\ ret = Return(Undefined)
    /\ fsLog = <<>>

\* The directory exists and its scan yields at least one record.
IndexNotEmpty == dirKind = "dir" /\ ScanFrom(files, 1, <<>>) # <<>>

\* C4 as stated: with gating enabled and the input document absent, the
\* entry point runs Full Generation: wherever
\* generateDynamicPluginsConfigFromMetadata returns a document for the same
\* environment and directory, loadAndInjectPluginMetadata returns it.
C4_AbsentInputGenerates ==
    (Loaded /\ ~GatingDisabled /\ arg.cfg = Undefined) =>
        LET full == generateDynamicPluginsConfigFromMetadata(
                        env, dirKind, files, arg.metadataPath).ret
        IN full.kind = "value" => ret = full

\* C4 amended: with gating enabled and the input document absent,
\* loadAndInjectPluginMetadata returns no document: it throws the
\* missing-directory error, or the no-valid-metadata error, or, when the
\* index holds a record, a TypeError from reading the plugins of the absent
\* document.
C4_AbsentInputThrows ==
    (Loaded /\ ~GatingDisabled /\ arg.cfg = Undefined) =>
        /\ ret.kind = "throw"
        /\ IndexNotEmpty <=> ret.error = "TypeError"
        /\ dirKind # "dir" =>
              ret.message.text = "PR build requires metadata directory but not found at"
        /\ (dirKind = "dir" /\ ~IndexNotEmpty) =>
              ret.message.text = "PR build requires plugin metadata but no valid metadata files found in"

C4_Witness ==
    /\ Loaded
    /\ ~GatingDisabled
    /\ arg.cfg = Undefined
    /\ IndexNotEmpty
    /\ ret.kind = "throw"
    /\ ret.error = "TypeError"


(***************************************************************************)
(* Descriptors as the specification describes them: valid when the         *)
(* document carries an artifact path and its first configuration example   *)
(* carries a content.                                                      *)
(***************************************************************************)
HasArtifact(file) ==
    /\ file.kind = "parsed"
    /\ "spec" \in DOMAIN file.parsed
    /\ "dynamicArtifact" \in DOMAIN file.parsed.spec
    /\ file.parsed.spec.dynamicArtifact.js = "string"
    /\ file.parsed.spec.dynamicArtifact.s # <<>>

ExamplesOf(file) ==
    IF /\ file.kind = "parsed"
       /\ "spec" \in DOMAIN file.parsed
       /\ "appConfigExamples" \in DOMAIN file.parsed.spec
       /\ file.parsed.spec.appConfigExamples.js = "array"
    THEN file.parsed.spec.appConfigExamples.items
    ELSE <<>>

HasFirstContent(file) ==
    /\ Len(ExamplesOf(file)) >= 1
    /\ "content" \in DOMAIN ExamplesOf(file)[1]
    /\ ExamplesOf(file)[1].content.js = "object"

ValidDescriptor(file) == HasArtifact(file) /\ HasFirstContent(file)

ArtifactOf(file) == file.parsed.spec.dynamicArtifact.s
IdentifierOf(file) == extractPluginName(ArtifactOf(file))

ValidIndexes == {i \in 1..Len(files) : ValidDescriptor(files[i])}
Identifiers == {IdentifierOf(files[i]) : i \in ValidIndexes}

\* The last valid descriptor of the listing that yields the identifier.
LastFor(id) ==
    CHOOSE i \in ValidIndexes :
        /\ IdentifierOf(files[i]) = id
        /\ \A j \in ValidIndexes : IdentifierOf(files[j]) = id => j <= i

Generated == pc = "done" /\ op = "generateDynamicPluginsConfigFromMetadata"

\* C13: with gating enabled the generated document has exactly one entry per
\* plugin of the index, each { package: the record's artifact path,
\* disabled: false, pluginConfig: the record's configuration }; two valid
\* descriptors with distinct identifiers give exactly two entries.
C13_OneEntryPerPlugin ==
    (Generated /\ ~GatingDisabled /\ dirKind = "dir" /\ Identifiers # {}) =>
        /\ ret.kind = "value"
        /\ DOMAIN ret.val = {"plugins"}
        /\ Len(ret.val.plugins) = Cardinality(Identifiers)
        /\ \A id \in Identifiers :
              LET kept == files[LastFor(id)]
                  entries == {i \in 1..Len(ret.val.plugins) :
                                extractPluginName(ret.val.plugins[i].package) = id}
              IN /\ Cardinality(entries) = 1
                 /\ \A i \in entries :
                       ret.val.plugins[i] =
                           [package |-> ArtifactOf(kept),
                            disabled |-> FALSE,
                            pluginConfig |-> ExamplesOf(kept)[1].content.o]

C13_Witness ==
    /\ Generated
    /\ ~GatingDisabled
    /\ files = <<FileA1, FileB>>
    /\ ret = Return([plugins |->
                <<[package |-> ArtifactA, disabled |-> FALSE,
                   pluginConfig |-> XY(1, 1)],
                  [package |-> ArtifactB, disabled |-> FALSE,
                   pluginConfig |-> A1]>>])

\* C14: with gating enabled generation fails with an error, and never with a
\* silent empty plugin list, when the metadata directory cannot be found
\* (the message names the resolved absolute path) or when the directory
\* exists but yields no valid record.
C14_GenerateFails ==
    (Generated /\ ~GatingDisabled) =>
        /\ dirKind # "dir" =>
              /\ ret.kind = "throw"
              /\ ret.message.path = Resolve(arg.metadataPath)
        /\ (dirKind = "dir" /\ Identifiers = {}) => ret.kind = "throw"
        /\ ret # Return([plugins |-> <<>>])

C14_Witness ==
    /\ Generated
    /\ ~GatingDisabled
    /\ dirKind = "dir"
    /\ files = <<FileThrows, FileNoArtifact>>
    /\ arg.metadataPath = "./custom/metadata"
    /\ ret.kind = "throw"
    /\ ret.message.path = Resolve("./custom/metadata")

\* C15: with gating enabled and a document given, loadAndInjectPluginMetadata
\* resolves the metadata directory before any injection and fails when the
\* directory is missing: no document is returned, no descriptor is read and
\* no plugin entry is augmented.
C15_MissingDirectoryFatal ==
    (Loaded /\ ~GatingDisabled /\ arg.cfg # Undefined) =>
        /\ Len(fsLog) >= 1
        /\ fsLog[1] = "existsSync"
        /\ dirKind # "dir" =>
              /\ ret.kind = "throw"
              /\ ret.message.path = Resolve(arg.metadataPath)
              /\ \A i \in 1..Len(fsLog) : fsLog[i] \notin {"glob", "readFile"}

C15_Witness ==
    /\ Loaded
    /\ ~GatingDisabled
    /\ dirKind = "missing"
    /\ arg.cfg = [includes |-> Includes, plugins |-> <<[package |-> PkgLocalA]>>]
    /\ ret.kind = "throw"
    /\ ret.message.text = "PR build requires metadata directory but not found at"

ParsedAll == pc = "done" /\ op = "parseAllMetadataFiles"
ParsedOne == pc = "done" /\ op = "parseMetadataFile"

\* The descriptor parseMetadataFile was called on.
FileAt == files[CHOOSE i \in 1..Len(files) : files[i].name = arg.filePath]

KeysOf(metadataMap) == {metadataMap[i].key : i \in 1..Len(metadataMap)}
EntriesOf(metadataMap) == {metadataMap[i] : i \in 1..Len(metadataMap)}

\* C16: a descriptor that cannot be read or parsed, or lacks a required
\* field, contributes no record; the scan goes on to every other file and
\* never aborts, so every valid descriptor's plugin is in the returned index.
C16_FailureContained ==
    ParsedAll =>
        /\ ret.kind = "value"
        /\ fsLog = <<"glob">> \o [i \in 1..Len(files) |-> "readFile"]
        /\ \A i \in ValidIndexes : MapHas(ret.val, IdentifierOf(files[i]))
        /\ \A i \in 1..Len(ret.val) :
              \E j \in ValidIndexes : ret.val[i].value.sourceFile = files[j].name

C16_Witness ==
    /\ ParsedAll
    /\ files = <<FileThrows, FileB>>
    /\ Len(ret.val) = 1
    /\ ret.val[1].value.sourceFile = "b.yaml"

\* C17: parseMetadataFile returns null, and raises nothing, when
\* spec.dynamicArtifact is absent or when the configuration examples are
\* absent or empty; it returns a record only when both are present.
C17_NullUnlessBothPresent ==
    ParsedOne =>
        /\ ret.kind = "value"
        /\ ~HasArtifact(FileAt) => ret.val = Null
        /\ Len(ExamplesOf(FileAt)) = 0 => ret.val = Null
        /\ ret.val # Null => ValidDescriptor(FileAt)

C17_Witness ==
    /\ ParsedOne
    /\ FileAt = FileEmptyExamples
    /\ ret = Return(Null)

\* C18: every record of the index is stored under extractPluginName of its
\* artifact path, and when several valid descriptors yield one identifier
\* the record of the one processed last in listing order is the one kept.
C18_LastInListingWins ==
    ParsedAll =>
        /\ \A i \in 1..Len(ret.val) :
              ret.val[i].key = extractPluginName(ret.val[i].value.packagePath)
        /\ \A i, j \in 1..Len(ret.val) : ret.val[i].key = ret.val[j].key => i = j
        /\ KeysOf(ret.val) = Identifiers
        /\ \A id \in Identifiers :
              /\ MapGet(ret.val, id).sourceFile = files[LastFor(id)].name
              /\ MapGet(ret.val, id).packagePath = ArtifactOf(files[LastFor(id)])

C18_Witness ==
    /\ ParsedAll
    /\ files = <<FileA1, FileA2>>
    /\ Len(ret.val) = 1
    /\ ret.val[1].key = <<"a">>
    /\ ret.val[1].value.sourceFile = "a2.yaml"
    /\ ret.val[1].value.packagePath = ArtifactOciA

\* The enumeration orders of the files of the directory.
Enumerations ==
    {p \in [1..Len(files) -> {files[i] : i \in 1..Len(files)}] :
        \A i, j \in 1..Len(files) : p[i] = p[j] => i = j}

\* C19: 'later entry wins' is applied in sorted file-name order, so
\* the index holds the same records for every enumeration order of the same
\* files.
C19_SameForEveryOrder ==
    ParsedAll =>
        \A p \in Enumerations : EntriesOf(ScanFrom(p, 1, <<>>)) = EntriesOf(ret.val)

\* The descriptor with its examples cut down to the first one.
FirstOnly(file) ==
    IF Len(ExamplesOf(file)) = 0 THEN file
    ELSE [file EXCEPT !.parsed.spec.appConfigExamples =
                          Arr(<<ExamplesOf(file)[1]>>)]

\* C20: the record's configuration is the content of the first example
\* alone; the examples after it change nothing, and a descriptor whose first
\* example has no content is skipped even when a later one has a content.
C20_FirstExampleOnly ==
    ParsedOne =>
        /\ ~HasFirstContent(FileAt) => ret.val = Null
        /\ ret.val # Null => ret.val.pluginConfig = ExamplesOf(FileAt)[1].content.o
        /\ ret = parseMetadataFile(FirstOnly(FileAt)).ret

C20_Witness ==
    /\ ParsedOne
    /\ FileAt = FileA1
    /\ Len(ExamplesOf(FileAt)) = 2
    /\ ret.val.pluginConfig = XY(1, 1)

GotDirectory == pc = "done" /\ op = "getMetadataDirectory"

\* C21: getMetadataDirectory returns null, and throws nothing, when the
\* resolved path does not exist or exists but is not a directory; it returns
\* the resolved absolute path only when the path is an existing directory.
C21_NullUnlessDirectory ==
    GotDirectory =>
        /\ ret.kind = "value"
        /\ dirKind \in {"missing", "file"} => ret.val = Null
        /\ dirKind = "dir" => ret.val = Resolve(arg.metadataPath)
        /\ ret.val # Null => dirKind = "dir"

C21_Witness ==
    /\ GotDirectory
    /\ dirKind = "file"
    /\ ret = Return(Null)

\* C22: parseAllMetadataFiles returns an empty index, and no error, when
\* the directory holds no valid descriptor: no file at all, or only files
\* that are skipped or fail to parse.
C22_EmptyIndex ==
    (ParsedAll /\ ValidIndexes = {}) => ret = Return(<<>>)

C22_Witness ==
    /\ ParsedAll
    /\ files = <<FileThrows, FileNoArtifact>>
    /\ ret = Return(<<>>)

\* C25: with gating enabled, a document given and the directory present,
\* loadAndInjectPluginMetadata fails with an error when the directory yields
\* no valid record, and returns a document only when the index holds at
\* least one record.
C25_EmptyIndexRejected ==
    (Loaded /\ ~GatingDisabled /\ arg.cfg # Undefined /\ dirKind = "dir") =>
        /\ ValidIndexes = {} =>
              /\ ret.kind = "throw"
              /\ ret.message.text =
                    "PR build requires plugin metadata but no valid metadata files found in"
        /\ ret.kind = "value" => ValidIndexes # {}

C25_Witness ==
    /\ Loaded
    /\ ~GatingDisabled
    /\ dirKind = "dir"
    /\ files = <<FileEmpty, FileNoExamples>>
    /\ arg.cfg = [plugins |-> <<>>]
    /\ ret.kind = "throw"

\* C26: with gating disabled generateDynamicPluginsConfigFromMetadata returns
\* a document with an empty plugins list and never throws, whatever the
\* directory is or holds, without resolving the directory or reading a file.
C26_DisabledGeneratesEmpty ==
    (Generated /\ GatingDisabled) =>
        /\ ret = Return([plugins |-> <<>>])
        /\ fsLog = <<>>

C26_Witness ==
    /\ Generated
    /\ GatingDisabled
    /\ dirKind = "missing"
    /\ ret = Return([plugins |-> <<>>])

\* C27: a generated document has as many entries as there are distinct
\* identifiers among the valid descriptors, not as many as valid files: a
\* shared identifier gives one entry, with the later-processed file's
\* artifact path and configuration, and no two entries share an identifier.
C27_EntriesPerIdentifier ==
    (Generated /\ ~GatingDisabled /\ ret.kind = "value") =>
        /\ Len(ret.val.plugins) = Cardinality(Identifiers)
        /\ \A i, j \in 1..Len(ret.val.plugins) :
              extractPluginName(ret.val.plugins[i].package) =
                  extractPluginName(ret.val.plugins[j].package) => i = j
        /\ \A i, j \in ValidIndexes :
              (i < j /\ IdentifierOf(files[i]) = IdentifierOf(files[j])) =>
                  \A k \in 1..Len(ret.val.plugins) :
                      ret.val.plugins[k].package # ArtifactOf(files[i])

C27_Witness ==
    /\ Generated
    /\ ~GatingDisabled
    /\ files = <<FileA1, FileA2>>
    /\ Cardinality(ValidIndexes) = 2
    /\ ret = Return([plugins |->
                <<[package |-> ArtifactOciA, disabled |-> FALSE,
                   pluginConfig |-> A1]>>])

(***************************************************************************)
(* Configuration objects by reference.  The heap is the sequence of the    *)
(* configuration objects in memory and a reference is a position in it; a  *)
(* record of the index and a plugin entry hold their configuration by      *)
(* reference.  The index is built once and injectMetadataConfig and the    *)
(* generation loop are then called over it, any number of times, on a      *)
(* document of the caller or on the document a call before returned.       *)
(* deepMerge returns a new object and writes to neither of its arguments.  *)
(***************************************************************************)
Alloc(h, value) == [heap |-> Append(h, value), ref |-> Len(h) + 1]

\* plugin.pluginConfig || {}
UserConfigOnHeap(h, plugin) ==
    IF "pluginConfig" \in DOMAIN plugin THEN h[plugin.pluginConfig] ELSE EmptyMap

\* A merge that writes the merged configuration into the record's object.
MergeIntoRecord(h, metadata, plugin) ==
    [heap |-> [h EXCEPT ![metadata.pluginConfig] =
                  deepMerge(h[metadata.pluginConfig], UserConfigOnHeap(h, plugin))],
     ref |-> metadata.pluginConfig]

\* const mergedPluginConfig = deepMerge(metadata.pluginConfig, ...)
MergeOnHeap(h, metadata, plugin) ==
    Alloc(h, deepMerge(h[metadata.pluginConfig], UserConfigOnHeap(h, plugin)))

\* The map callback over the entries from position i on.
RECURSIVE AugmentFrom(_, _, _, _, _)
AugmentFrom(h, plugins, i, metadataMap, augmented) ==
    IF i > Len(plugins) THEN [heap |-> h, plugins |-> augmented]
    ELSE LET plugin == plugins[i]
             pluginName == extractPluginName(plugin.package)
         IN IF ~MapHas(metadataMap, pluginName)
            THEN AugmentFrom(h, plugins, i + 1, metadataMap,
                             Append(augmented, plugin))
            ELSE LET merged == MergeOnHeap(h, MapGet(metadataMap, pluginName),
                                           plugin)
                 IN AugmentFrom(merged.heap, plugins, i + 1, metadataMap,
                        Append(augmented, WithPluginConfig(plugin, merged.ref)))

injectOnHeap(h, dynamicPluginsConfig, metadataMap) ==
    IF "plugins" \notin DOMAIN dynamicPluginsConfig
    THEN [heap |-> h, ret |-> Return(dynamicPluginsConfig)]
    ELSE LET out == AugmentFrom(h, dynamicPluginsConfig.plugins, 1,
                                metadataMap, <<>>)
         IN [heap |-> out.heap,
             ret |-> Return([f \in DOMAIN dynamicPluginsConfig |->
                               IF f = "plugins" THEN out.plugins
                               ELSE dynamicPluginsConfig[f]])]

\* The documents of a caller, their configurations given by value.
CallerEntries ==
    {[package |-> PkgLocalA],
     [package |-> PkgOciA, disabled |-> TRUE, pluginConfig |-> OnlyY(2)],
     [package |-> PkgTagB, pluginConfig |-> EmptyMap],
     [package |-> <<".", "/", "d", "/", "c">>, pluginConfig |-> OnlyY(2)]}

CallerDocs ==
    {[includes |-> Includes]}
        \cup {[plugins |-> l] :
                l \in UNION {[1..n -> CallerEntries] : n \in 0..MaxPlugins}}

\* The caller's document in memory: each configuration an object of its own.
RECURSIVE AllocEntries(_, _, _, _)
AllocEntries(h, plugins, i, out) ==
    IF i > Len(plugins) THEN [heap |-> h, plugins |-> out]
    ELSE IF "pluginConfig" \notin DOMAIN plugins[i]
    THEN AllocEntries(h, plugins, i + 1, Append(out, plugins[i]))
    ELSE LET a == Alloc(h, plugins[i].pluginConfig)
         IN AllocEntries(a.heap, plugins, i + 1,
                Append(out, WithPluginConfig(plugins[i], a.ref)))

AllocDoc(h, doc) ==
    IF "plugins" \notin DOMAIN doc THEN [heap |-> h, doc |-> doc]
    ELSE LET a == AllocEntries(h, doc.plugins, 1, <<>>)
         IN [heap |-> a.heap,
             doc |-> [f \in DOMAIN doc |->
                        IF f = "plugins" THEN a.plugins ELSE doc[f]]]

\* The index as parseAllMetadataFiles leaves it: records A and B, their
\* configurations the first objects of the heap.
BuiltHeaps == {<<c, A1>> : c \in {XY(1, 1), A1, EmptyMap}}

BuiltIndex ==
    IndexOf(<<Record(ArtifactA, 1, "a.yaml"), Record(ArtifactB, 2, "b.yaml")>>)

InitHeap ==
    /\ env = NoEnv
    /\ dirKind = "dir"
    /\ files = <<>>
    /\ pc = "idle"
    /\ op = "parseAllMetadataFiles"
    /\ heap \in BuiltHeaps
    /\ arg = [metadataMap |-> BuiltIndex, built |-> heap, cfg |-> Undefined]
    /\ ret = Return(BuiltIndex)
    /\ fsLog = <<>>
    /\ console = NoConsole
    /\ page = NoPage

HasDocument == ret.kind = "value" /\ op # "parseAllMetadataFiles"

\* injectMetadataConfig on a document the caller builds for the call.
InjectCallerDocument ==
    \E doc \in CallerDocs :
        LET given == AllocDoc(heap, doc)
            out == injectOnHeap(given.heap, given.doc, arg.metadataMap)
        IN /\ Len(out.heap) <= MaxObjects
           /\ heap' = out.heap
           /\ ret' = out.ret
           /\ arg' = [arg EXCEPT !.cfg = given.doc]
           /\ op' = "injectMetadataConfig"
           /\ pc' = "done"
           /\ UNCHANGED <<env, dirKind, files, fsLog, console, page>>

\* injectMetadataConfig on the document the call before returned.
InjectReturnedDocument ==
    /\ HasDocument
    /\ LET out == injectOnHeap(heap, ret.val, arg.metadataMap)
       IN /\ Len(out.heap) <= MaxObjects
          /\ heap' = out.heap
          /\ ret' = out.ret
          /\ arg' = [arg EXCEPT !.cfg = ret.val]
          /\ op' = "injectMetadataConfig"
          /\ pc' = "done"
    /\ UNCHANGED <<env, dirKind, files, fsLog, console, page>>

\* The generation loop over the index: each entry holds the record's own
\* configuration object.
GenerateFromIndex ==
    /\ ret' = Return([plugins |-> PluginsFromMetadata(arg.metadataMap)])
    /\ arg' = [arg EXCEPT !.cfg = Undefined]
    /\ op' = "generateDynamicPluginsConfigFromMetadata"
    /\ pc' = "done"
    /\ UNCHANGED <<env, dirKind, files, fsLog, console, page, heap>>

NextHeap ==
    \/ InjectCallerDocument
    \/ InjectReturnedDocument
    \/ GenerateFromIndex

SpecHeap == InitHeap /\ [][NextHeap]_vars

(***************************************************************************)
(* Properties of the configuration objects (checked under SpecHeap).       *)
(***************************************************************************)
RecordRefs ==
    {arg.metadataMap[i].value.pluginConfig : i \in 1..Len(arg.metadataMap)}

InjectedOnHeap ==
    /\ pc = "done"
    /\ op = "injectMetadataConfig"
    /\ "plugins" \in DOMAIN arg.cfg

\* C23: no operation changes a metadata record's configuration in place:
\* after any sequence of injectMetadataConfig and generation calls over an
\* index every record's configuration is what it was when the index was
\* built, and the pluginConfig of every entry injectMetadataConfig merged is
\* a new object, neither the record's nor the entry's own.
C23_RecordsNeverMutated ==
    /\ \A r \in RecordRefs : heap[r] = arg.built[r]
    /\ InjectedOnHeap =>
          \A i \in 1..Len(arg.cfg.plugins) :
              Matched(arg.cfg.plugins[i], arg.metadataMap) =>
                  /\ ret.val.plugins[i].pluginConfig \notin RecordRefs
                  /\ "pluginConfig" \in DOMAIN arg.cfg.plugins[i] =>
                        ret.val.plugins[i].pluginConfig #
                            arg.cfg.plugins[i].pluginConfig

C23_Witness ==
    /\ InjectedOnHeap
    /\ arg.cfg = [plugins |-> PluginsFromMetadata(arg.metadataMap)]
    /\ arg.cfg.plugins[1].pluginConfig = 1
    /\ ret.val.plugins[1].pluginConfig = 3
    /\ ret.val.plugins[2].pluginConfig = 4
    /\ heap = <<XY(1, 1), A1, XY(1, 1), A1>>

(***************************************************************************)
(* utils/bash: runQuietUnlessFailure.  The command runs with its output    *)
(* piped and nothrow set, so awaiting it yields a result whatever the exit *)
(* code; the function is suspended at that await until the command exits.  *)
(***************************************************************************)
Whitespace == {" ", "\n", "\t"}

\* String.prototype.trim
RECURSIVE TrimStart(_)
TrimStart(s) ==
    IF s # <<>> /\ Head(s) \in Whitespace THEN TrimStart(Tail(s)) ELSE s

RECURSIVE TrimEnd(_)
TrimEnd(s) ==
    IF s # <<>> /\ s[Len(s)] \in Whitespace
    THEN TrimEnd(SubSeq(s, 1, Len(s) - 1))
    ELSE s

Trim(s) == TrimEnd(TrimStart(s))

\* if (output?.trim()) console.error(label, output.trim())
ConsoleLines(label, output) ==
    IF output.js = "string" /\ Trim(output.s) # <<>>
    THEN <<[label |-> label, text |-> Trim(output.s)]>>
    ELSE <<>>

\* A runner that reports a failed command and returns.
runQuietReportOnly(result) ==
    IF result.exitCode # 0
    THEN [ret |-> Return(Undefined),
          console |-> ConsoleLines("[command stdout]:", result.stdout)
                          \o ConsoleLines("[command stderr]:", result.stderr)]
    ELSE [ret |-> Return(Undefined), console |-> <<>>]

\* The function from the result of the awaited command on.
runQuietUnlessFailure(result) ==
    IF result.exitCode # 0
    THEN [ret |-> Throw("Error", [text |-> "Command failed with exit code",
                                  exitCode |-> result.exitCode,
                                  rest |-> ". Output above."]),
          console |-> ConsoleLines("[command stdout]:", result.stdout)
                          \o ConsoleLines("[command stderr]:", result.stderr)]
    ELSE [ret |-> Return(Undefined), console |-> <<>>]

\* What a command can leave on a pipe.
Outputs ==
    {Undefined, Str(<<>>), Str(<<" ", "\n">>), Str(<<"o">>),
     Str(<<" ", "o", " ", "k", "\n">>), Str(<<"\n", "e", "\n">>)}

ExitCodes == 0..MaxExit

ProcessResults ==
    {[exitCode |-> c, stdout |-> o, stderr |-> e] :
        c \in ExitCodes, o \in Outputs, e \in Outputs}

InitRun ==
    /\ env = NoEnv
    /\ dirKind = "missing"
    /\ files = <<>>
    /\ pc = "call"
    /\ op = "runQuietUnlessFailure"
    /\ arg = <<>>
    /\ ret = NoRet
    /\ fsLog = <<>>
    /\ console = NoConsole
    /\ page = NoPage
    /\ heap = NoHeap

\* The command is spawned and the function waits for it.
RunWithPipe ==
    /\ pc = "call"
    /\ op = "runQuietUnlessFailure"
    /\ pc' = "await"
    /\ UNCHANGED <<env, dirKind, files, op, arg, ret, fsLog, console, page, heap>>

\* The command exits and the function runs to its end.
RunQuietUnlessFailure ==
    /\ pc = "await"
    /\ op = "runQuietUnlessFailure"
    /\ \E result \in ProcessResults :
          /\ arg' = [result |-> result]
          /\ ret' = runQuietUnlessFailure(result).ret
          /\ console' = console \o runQuietUnlessFailure(result).console
    /\ pc' = "done"
    /\ UNCHANGED <<env, dirKind, files, op, fsLog, page, heap>>

NextRun == RunWithPipe \/ RunQuietUnlessFailure

SpecRun == InitRun /\ [][NextRun]_vars

(***************************************************************************)
(* Properties of runQuietUnlessFailure (checked under SpecRun).            *)
(***************************************************************************)
Ran == pc = "done" /\ op = "runQuietUnlessFailure"

NonBlank(output) ==
    output.js = "string" /\ \E i \in 1..Len(output.s) : output.s[i] \notin Whitespace

\* t is s without the whitespace at its two ends.
IsTrimmed(t, s) ==
    \E i, j \in 1..Len(s) :
        /\ i <= j
        /\ t = SubSeq(s, i, j)
        /\ s[i] \notin Whitespace
        /\ s[j] \notin Whitespace
        /\ \A k \in 1..Len(s) : (k < i \/ k > j) => s[k] \in Whitespace

\* The lines of the console that carry the label.
Labelled(label) == SelectSeq(console, LAMBDA l : l.label = label)

\* C29: runQuietUnlessFailure returns with nothing printed when the command
\* exits with code 0; on a non-zero exit it writes the non-blank stdout and
\* the non-blank stderr to console.error, stdout first, and throws an error
\* that names the exit code; it never returns normally on a non-zero exit.
C29_QuietUnlessFailure ==
    Ran =>
        LET result == arg.result
        IN /\ result.exitCode = 0 => (ret = Return(Undefined) /\ console = <<>>)
           /\ result.exitCode # 0 =>
                 /\ ret.kind = "throw"
                 /\ ret.message.exitCode = result.exitCode
                 /\ Len(Labelled("[command stdout]:")) =
                        (IF NonBlank(result.stdout) THEN 1 ELSE 0)
                 /\ Len(Labelled("[command stderr]:")) =
                        (IF NonBlank(result.stderr) THEN 1 ELSE 0)
                 /\ console = Labelled("[command stdout]:")
                                  \o Labelled("[command stderr]:")
                 /\ \A i \in 1..Len(console) :
                       IsTrimmed(console[i].text,
                                 IF console[i].label = "[command stdout]:"
                                 THEN result.stdout.s ELSE result.stderr.s)

C29_Witness ==
    /\ Ran
    /\ arg.result = [exitCode |-> 2, stdout |-> Str(<<" ", "o", " ", "k", "\n">>),
                      stderr |-> Str(<<"\n", "e", "\n">>)]
    /\ console = <<[label |-> "[command stdout]:", text |-> <<"o", " ", "k">>],
                   [label |-> "[command stderr]:", text |-> <<"e">>]>>
    /\ ret.kind = "throw"
    /\ ret.message.exitCode = 2

(***************************************************************************)
(* playwright/pages/catalog-import: CatalogImportPage.                     *)
(* The page is what it shows (the buttons that are visible) and how it     *)
(* answers: whether the Analyze button goes away, whether the component is *)
(* already in the catalog (Refresh is offered instead of Import), whether  *)
(* "Register another" appears after a refresh.  The log holds what the     *)
(* page object did to the page, in order.  The buttons the page shows can  *)
(* be clicked.                                                             *)
(***************************************************************************)
Fill(target, value) == [do |-> "fill", target |-> target, value |-> value]
Click(label) == [do |-> "click", target |-> label]

\* UIhelper.isBtnVisible: a button that does not show up in time is not
\* visible; no error leaves the helper.
isBtnVisible(p, text) == text \in p.shown

\* What the page shows once the Analyze button was clicked.
AfterAnalyze(p) ==
    IF p.analyzeStays THEN {"Analyze"}
    ELSE IF p.registered THEN {"Refresh"}
    ELSE {"Import"}

\* What the page shows once the Refresh button was clicked.
AfterRefresh(p) ==
    IF p.registerAnother THEN {"Register another"} ELSE {"Refresh"}

\* What the page shows once the Import button was clicked.
AfterImport == {"View Component", "Register another"}

\* A page object that always opens the imported component.
clickViewComponentAlways(a) == TRUE

\* clickViewComponent: boolean = true
clickViewComponentOf(a) ==
    IF "clickViewComponent" \in DOMAIN a THEN a.clickViewComponent ELSE TRUE

ExpectFailed(text) == Throw("Error", [text |-> text])

Urls == {"https://github.com/org/repo/blob/main/catalog-info.yaml",
         "https://github.com/org/other/blob/main/catalog-info.yaml"}

RegisterArgs ==
    {[url |-> u] : u \in Urls}
        \cup {[url |-> u, clickViewComponent |-> c] : u \in Urls, c \in BOOLEAN}

Pages ==
    {[shown |-> {"Analyze"}, analyzeStays |-> s, registered |-> r,
      registerAnother |-> a, log |-> <<>>] :
        s \in BOOLEAN, r \in BOOLEAN, a \in BOOLEAN}

InitRegister ==
    /\ env = NoEnv
    /\ dirKind = "missing"
    /\ files = <<>>
    /\ pc = "call"
    /\ op = "registerExistingComponent"
    /\ arg \in RegisterArgs
    /\ ret = NoRet
    /\ fsLog = <<>>
    /\ console = NoConsole
    /\ page \in Pages
    /\ heap = NoHeap

\* analyzeAndWait: fill the URL, click Analyze, expect the button to go.
AnalyzeAndWait ==
    /\ pc = "call"
    /\ op = "registerExistingComponent"
    /\ page' = [page EXCEPT !.log = page.log \o <<Fill("componentURL", arg.url),
                                                   Click("Analyze")>>,
                            !.shown = AfterAnalyze(page)]
    /\ IF "Analyze" \in AfterAnalyze(page)
       THEN /\ pc' = "done"
            /\ ret' = ExpectFailed("expect(locator).not.toBeVisible()")
       ELSE /\ pc' = "analyzed"
            /\ ret' = ret
    /\ UNCHANGED <<env, dirKind, files, op, arg, fsLog, console, heap>>

\* const isComponentAlreadyRegistered = await this.isComponentAlreadyRegistered()
IsComponentAlreadyRegistered ==
    /\ pc = "analyzed"
    /\ pc' = IF isBtnVisible(page, "Refresh") THEN "registered" ELSE "unregistered"
    /\ UNCHANGED <<env, dirKind, files, op, arg, ret, fsLog, console, page, heap>>

\* The branch of a component already registered.
ClickRefresh ==
    /\ pc = "registered"
    /\ page' = [page EXCEPT !.log = Append(page.log, Click("Refresh")),
                            !.shown = AfterRefresh(page)]
    /\ ret' = IF "Register another" \in AfterRefresh(page)
              THEN Return(TRUE)
              ELSE ExpectFailed("expect(received).toBeTruthy()")
    /\ pc' = "done"
    /\ UNCHANGED <<env, dirKind, files, op, arg, fsLog, console, heap>>

\* The branch of a component not yet registered, up to the Import click.
ClickImport ==
    /\ pc = "unregistered"
    /\ page' = [page EXCEPT !.log = Append(page.log, Click("Import")),
                            !.shown = AfterImport]
    /\ IF clickViewComponentOf(arg)
       THEN pc' = "imported" /\ ret' = ret
       ELSE pc' = "done" /\ ret' = Return(FALSE)
    /\ UNCHANGED <<env, dirKind, files, op, arg, fsLog, console, heap>>

ClickViewComponent ==
    /\ pc = "imported"
    /\ page' = [page EXCEPT !.log = Append(page.log, Click("View Component"))]
    /\ ret' = Return(FALSE)
    /\ pc' = "done"
    /\ UNCHANGED <<env, dirKind, files, op, arg, fsLog, console, heap>>

NextRegister ==
    \/ AnalyzeAndWait
    \/ IsComponentAlreadyRegistered
    \/ ClickRefresh
    \/ ClickImport
    \/ ClickViewComponent

SpecRegister == InitRegister /\ [][NextRegister]_vars

(***************************************************************************)
(* Properties of registerExistingComponent (checked under SpecRegister).   *)
(***************************************************************************)
RegisterEnded == pc = "done" /\ op = "registerExistingComponent"

Clicked(label) == \E i \in 1..Len(page.log) : page.log[i] = Click(label)

AnalyzedFirst ==
    /\ Len(page.log) >= 2
    /\ page.log[1] = Fill("componentURL", arg.url)
    /\ page.log[2] = Click("Analyze")

WantsView == "clickViewComponent" \notin DOMAIN arg \/ arg.clickViewComponent

====
